---- MODULE Spec2Model ----
(***************************************************************************)
(* Model of the comparison-study CSV tools (tools/*.py):                   *)
(*   get_previous_frame_url  - previous-frame URL derivation               *)
(*   prepare_file            - raw captions -> randomized comparison rows  *)
(*   process_csv_file        - fills the empty prev_image cells            *)
(*   fix_csv_file            - realigns the columns of a shifted table     *)
(*   randomize_csv_file      - swaps the descriptions, writes model_position *)
(*   analyze_results         - matching of responses and win/lose/tie      *)
(* Text is modelled as a sequence of one-character strings so that split,  *)
(* strip, the filename pattern and the number formatting are computed.     *)
(***************************************************************************)
EXTENDS Integers, Sequences, FiniteSets, TLC

VARIABLES
    url,        \* argument of get_previous_frame_url
    offset,     \* argument of get_previous_frame_url
    prevUrl,    \* result of the f-string variant (prepare_comparison_csv.py)
    prevUrlZ,   \* result of the zfill variant (fix_comparison_csv.py, generate_prev_images.py)
    fpc,        \* "call" before the function ran, "ret" after, "idle" when unused
    files,      \* path -> the CSV file there: exists, fieldnames, rows
    input,      \* path -> the rows the file held at the start (never changed)
    ret,        \* path -> what the last prepare_file call on it returned ("-" before any)
    seedArg,    \* path -> the seed argument of the prepare_file call that wrote it
    kept,       \* path -> for each row written, the index of the input row it came from
    rng,        \* state of the process-wide generator of module random
    calls,      \* path -> the tool runs on the file, in order: tool, wrote, raised
    mt,         \* seed -> the outputs the generator has shown after random.seed(seed)
    cmp,        \* dataset key -> its comparison file: exists, rows
    respExists, \* whether the responses file exists
    total,      \* len(responses)
    resp,       \* the response r of the current loop iteration
    done,       \* number of responses the loop has been through
    lookup,     \* key -> list of (dataset key, model_position)
    stats,      \* model -> win, lose, tie, rows
    unmatched,  \* list of keys
    ambiguous,  \* list of (key, matches)
    apc         \* "start", "loop", "done", "exit" of analyze_results; "idle" when unused

frameVars == <<url, offset, prevUrl, prevUrlZ, fpc>>

prepVars == <<files, input, ret, seedArg, kept, rng, mt, calls>>

anaVars == <<cmp, respExists, total, resp, done, lookup, stats, unmatched, ambiguous, apc>>

vars == <<url, offset, prevUrl, prevUrlZ, fpc, files, input, ret, seedArg, kept, rng, mt, calls,
          cmp, respExists, total, resp, done, lookup, stats, unmatched, ambiguous, apc>>

(***************************************************************************)
(* Bounds                                                                  *)
(***************************************************************************)
MaxUrlLen == 5
MaxOffset == 3
MaxRows == 3
MaxCmpRows == 2
MaxResponses == 2
MaxCalls == 3

(***************************************************************************)
(* Characters and text helpers                                             *)
(***************************************************************************)
NL == "\n"

DigitChars == <<"0", "1", "2", "3", "4", "5", "6", "7", "8", "9">>

\* \d of the pattern
IsDigit(c) == \E i \in 1..10 : DigitChars[i] = c

Letters == {"a", "b", "j", "x", "y", "_"}

\* \w of the pattern: letters, digits and the underscore
IsWord(c) == IsDigit(c) \/ c \in Letters

\* characters removed by str.strip()
IsSpace(c) == c \in {" ", NL}

DigitVal(c) == (CHOOSE i \in 1..10 : DigitChars[i] = c) - 1

\* the characters URLs are drawn from: digits, a letter, the dot, the
\* separator and a newline (a character that is neither \w nor the dot)
UrlAlphabet == {"0", "1", "a", ".", "/", NL}

Urls == UNION {[1..n -> UrlAlphabet] : n \in 0..MaxUrlLen}

Offsets == 1..MaxOffset

\* index of the last "/" of s, 0 when there is none
LastSlash(s) ==
    IF \E i \in 1..Len(s) : s[i] = "/"
    THEN CHOOSE i \in 1..Len(s) : s[i] = "/" /\ \A j \in (i+1)..Len(s) : s[j] # "/"
    ELSE 0

\* url.split("/"): the segments between the separators
RECURSIVE Split(_)
Split(s) ==
    IF LastSlash(s) = 0 THEN <<s>>
    ELSE Append(Split(SubSeq(s, 1, LastSlash(s) - 1)), SubSeq(s, LastSlash(s) + 1, Len(s)))

\* "/".join(parts)
RECURSIVE Join(_)
Join(parts) ==
    IF Len(parts) = 1 THEN parts[1]
    ELSE Join(SubSeq(parts, 1, Len(parts) - 1)) \o <<"/">> \o parts[Len(parts)]

\* length of the longest run of characters satisfying the class, from index i
RECURSIVE DigitRun(_, _)
DigitRun(s, i) == IF i <= Len(s) /\ IsDigit(s[i]) THEN 1 + DigitRun(s, i + 1) ELSE 0

RECURSIVE WordRun(_, _)
WordRun(s, i) == IF i <= Len(s) /\ IsWord(s[i]) THEN 1 + WordRun(s, i + 1) ELSE 0

\* "$" matches at the end of the string and also just before a newline that
\* is the last character of the string
AtDollar(s, i) == i = Len(s) + 1 \/ (i = Len(s) /\ s[i] = NL)

\* re.match(r"^(\d+)\.(\w+)$", filename): groups 1 and 2, or no match.
\* Both runs are greedy and no shorter run can match, so the match is unique.
MatchFrame(filename) ==
    LET d == DigitRun(filename, 1)
        w == WordRun(filename, d + 2)
    IN  IF /\ d >= 1
           /\ d + 1 <= Len(filename)
           /\ filename[d + 1] = "."
           /\ w >= 1
           /\ AtDollar(filename, d + 2 + w)
        THEN [ok |-> TRUE, num |-> SubSeq(filename, 1, d), ext |-> SubSeq(filename, d + 2, d + 1 + w)]
        ELSE [ok |-> FALSE, num |-> <<>>, ext |-> <<>>]

\* int(digits)
RECURSIVE ParseInt(_)
ParseInt(ds) ==
    IF ds = <<>> THEN 0
    ELSE ParseInt(SubSeq(ds, 1, Len(ds) - 1)) * 10 + DigitVal(ds[Len(ds)])

\* str(n) for n >= 0
RECURSIVE Str(_)
Str(n) == IF n < 10 THEN <<DigitChars[n + 1]>> ELSE Append(Str(n \div 10), DigitChars[(n % 10) + 1])

\* left padding with "0" up to the width; longer text is left alone
RECURSIVE ZFill(_, _)
ZFill(s, width) == IF Len(s) >= width THEN s ELSE ZFill(<<"0">> \o s, width)

\* a bug the padding claim must catch: the number is written without padding
FormatUnpadded(n, padding) == Str(n)

\* f"{prev_frame:0{padding}d}" for prev_frame >= 0
FormatPadded(n, padding) == ZFill(Str(n), padding)

\* "if prev_frame < 0: return ''"
NoPredecessor(prev_frame) == prev_frame < 0

\* get_previous_frame_url of prepare_comparison_csv.py
get_previous_frame_url(u, k) ==
    IF u = <<>> THEN <<>>
    ELSE LET parts == Split(u)
             filename == parts[Len(parts)]
             match == MatchFrame(filename)
         IN  IF ~match.ok THEN <<>>
             ELSE LET frame_num == ParseInt(match.num)
                      padding == Len(match.num)
                      prev_frame == frame_num - k
                  IN  IF NoPredecessor(prev_frame) THEN <<>>
                      ELSE Join([parts EXCEPT ![Len(parts)] =
                                   FormatPadded(prev_frame, padding) \o <<".">> \o match.ext])

\* get_previous_frame_url of fix_comparison_csv.py and generate_prev_images.py
\* (the two are the same text): str(prev_frame_num).zfill(padding_length)
get_previous_frame_url_zfill(u, k) ==
    IF u = <<>> THEN <<>>
    ELSE LET parts == Split(u)
             filename == parts[Len(parts)]
             match == MatchFrame(filename)
         IN  IF ~match.ok THEN <<>>
             ELSE LET frame_num == ParseInt(match.num)
                      padding_length == Len(match.num)
                      prev_frame_num == frame_num - k
                  IN  IF NoPredecessor(prev_frame_num) THEN <<>>
                      ELSE Join([parts EXCEPT ![Len(parts)] =
                                   ZFill(Str(prev_frame_num), padding_length) \o <<".">> \o match.ext])

(***************************************************************************)
(* prepare_file (prepare_comparison_csv.py)                                *)
(***************************************************************************)
Paths == {"p1", "p2"}

NoSeed == "None"

Seeds == {"s1", "s2"}

RawFields == {"image_url", "original_description", "generated_description"}

PreparedFields == {"prev_image", "current_image", "description_a", "description_b", "model_position"}

NoFile == [exists |-> FALSE, fieldnames |-> {}, rows |-> <<>>]

\* str.strip(): leading and trailing whitespace removed
RECURSIVE Strip(_)
Strip(s) ==
    IF s = <<>> THEN s
    ELSE IF IsSpace(s[1]) THEN Strip(SubSeq(s, 2, Len(s)))
    ELSE IF IsSpace(s[Len(s)]) THEN Strip(SubSeq(s, 1, Len(s) - 1))
    ELSE s

\* (row.get(name) or "").strip()
Field(row, name) == Strip(row[name])

\* the key of the exact-duplicate removal
TrioKey(row) ==
    <<Field(row, "image_url"), Field(row, "original_description"), Field(row, "generated_description")>>

\* "Remove exact duplicates": the rows are referred to by their index in the
\* input, i is the loop position, seen and acc are seen and unique_rows
RECURSIVE DedupLoop(_, _, _, _)
DedupLoop(rows, i, seen, acc) ==
    IF i > Len(rows) THEN acc
    ELSE IF TrioKey(rows[i]) \in seen THEN DedupLoop(rows, i + 1, seen, acc)
    ELSE DedupLoop(rows, i + 1, seen \cup {TrioKey(rows[i])}, Append(acc, i))

UniqueRows(rows) == DedupLoop(rows, 1, {}, <<>>)

\* a bug the per-image claims must catch: the captions seen are remembered
\* without the image they belong to
SeenOrigAnyImage(img, orig) == <<<<>>, orig>>

\* an entry of seen_orig_for_img: the caption orig was seen for the image img
SeenOrig(img, orig) == <<img, orig>>

\* "For each image, keep only entries with unique original_description":
\* unique is unique_rows, t the loop position, seen is seen_orig_for_img as a
\* set of (image, caption) pairs, acc is filtered_rows
RECURSIVE FilterLoop(_, _, _, _, _)
FilterLoop(rows, unique, t, seen, acc) ==
    IF t > Len(unique) THEN acc
    ELSE LET img == Field(rows[unique[t]], "image_url")
             orig == Field(rows[unique[t]], "original_description")
         IN  IF img = <<>> \/ orig = <<>> THEN FilterLoop(rows, unique, t + 1, seen, acc)
             ELSE IF SeenOrig(img, orig) \in seen THEN FilterLoop(rows, unique, t + 1, seen, acc)
             ELSE FilterLoop(rows, unique, t + 1, seen \cup {SeenOrig(img, orig)}, Append(acc, unique[t]))

FilteredRows(rows) == FilterLoop(rows, UniqueRows(rows), 1, {}, <<>>)

\* a bug the duplicate claim must catch: a row without generated caption
\* is taken to be complete
IsCompleteWithoutGenerated(row) ==
    /\ Field(row, "image_url") # <<>>
    /\ Field(row, "original_description") # <<>>

\* "if not current or not orig_desc or not model_desc: continue"
IsComplete(row) ==
    /\ Field(row, "image_url") # <<>>
    /\ Field(row, "original_description") # <<>>
    /\ Field(row, "generated_description") # <<>>

\* the rows of filtered_rows that reach random.choice, in order
RECURSIVE CompleteLoop(_, _, _, _)
CompleteLoop(rows, filtered, t, acc) ==
    IF t > Len(filtered) THEN acc
    ELSE IF IsComplete(rows[filtered[t]]) THEN CompleteLoop(rows, filtered, t + 1, Append(acc, filtered[t]))
    ELSE CompleteLoop(rows, filtered, t + 1, acc)

PreparedIdx(rows) == CompleteLoop(rows, FilteredRows(rows), 1, <<>>)

\* a bug the placement claim must catch: the position recorded is the other one
PlaceRowMislabelled(row, coin) ==
    LET current == Field(row, "image_url")
        orig_desc == Field(row, "original_description")
        model_desc == Field(row, "generated_description")
        prev == get_previous_frame_url(current, 1)
    IN  IF coin
        THEN [prev_image |-> prev, current_image |-> current,
              description_a |-> model_desc, description_b |-> orig_desc, model_position |-> "B"]
        ELSE [prev_image |-> prev, current_image |-> current,
              description_a |-> orig_desc, description_b |-> model_desc, model_position |-> "A"]

\* the body of the last loop for one complete row; coin is the value of
\* random.choice([True, False])
PlaceRow(row, coin) ==
    LET current == Field(row, "image_url")
        orig_desc == Field(row, "original_description")
        model_desc == Field(row, "generated_description")
        prev == get_previous_frame_url(current, 1)
    IN  IF coin
        THEN [prev_image |-> prev, current_image |-> current,
              description_a |-> model_desc, description_b |-> orig_desc, model_position |-> "A"]
        ELSE [prev_image |-> prev, current_image |-> current,
              description_a |-> orig_desc, description_b |-> model_desc, model_position |-> "B"]

\* a bug the determinism claim must catch: the seed argument is not applied
ReseedIgnored(state, seed) == state

\* "if seed is not None: random.seed(seed)": the generator restarts at the
\* first output of the seed's sequence
Reseed(state, seed) == IF seed # NoSeed THEN [seed |-> seed, pos |-> 0] ELSE state

\* The generator is deterministic: after random.seed(s) its outputs are a
\* fixed sequence, of which mt[s] holds the part shown so far.  A generator
\* that was never seeded by the program (seeded from OS entropy) may give
\* anything.  coins are n successive values of random.choice([True, False]).
CoinsAllowed(state, coins) ==
    state.seed # NoSeed =>
        \A i \in 1..Len(coins) :
            state.pos + i <= Len(mt[state.seed]) => coins[i] = mt[state.seed][state.pos + i]

\* the generator after the draws
Drawn(state, n) == IF state.seed = NoSeed THEN state ELSE [state EXCEPT !.pos = @ + n]

\* the outputs shown, after the draws
Shown(state, coins) ==
    IF state.seed = NoSeed THEN mt
    ELSE [mt EXCEPT ![state.seed] =
            @ \o SubSeq(coins, Len(@) - state.pos + 1, Len(coins))]

\* the log of the tool runs on the file at p with one more entry: the tool,
\* whether it wrote the file, and whether it ended with an exception
Logged(p, tool, wrote, raised) ==
    [calls EXCEPT ![p] = Append(@, [tool |-> tool, wrote |-> wrote, raised |-> raised])]

\* prepare_file(input_path, seed) for the file at path p; main() calls it
\* once for each path
PrepareFile(p, seed) ==
    /\ fpc = "idle"
    /\ ret[p] = "-"
    /\ UNCHANGED <<input, frameVars, anaVars>>
    /\ IF ~files[p].exists
       THEN \* "File not found"
            /\ ret' = [ret EXCEPT ![p] = "None"]
            /\ calls' = Logged(p, "prepare_file", FALSE, FALSE)
            /\ UNCHANGED <<files, kept, rng, mt, seedArg>>
       ELSE IF ~(RawFields \subseteq files[p].fieldnames)
       THEN \* missing required columns; the seed was applied before
            /\ ret' = [ret EXCEPT ![p] = "None"]
            /\ rng' = Reseed(rng, seed)
            /\ calls' = Logged(p, "prepare_file", FALSE, FALSE)
            /\ UNCHANGED <<files, kept, mt, seedArg>>
       ELSE \E seeded \in {Reseed(rng, seed)}, idx \in {PreparedIdx(files[p].rows)} :
                IF idx = <<>>
                THEN \* no row left at one of the three "if not ..._rows" checks
                     \* (no row of the last loop is complete in each case)
                     /\ ret' = [ret EXCEPT ![p] = "None"]
                     /\ rng' = seeded
                     /\ calls' = Logged(p, "prepare_file", FALSE, FALSE)
                     /\ UNCHANGED <<files, kept, mt, seedArg>>
                ELSE \E coins \in [1..Len(idx) -> BOOLEAN] :
                        /\ CoinsAllowed(seeded, coins)
                        /\ files' = [files EXCEPT ![p] =
                              [exists |-> TRUE,
                               fieldnames |-> PreparedFields,
                               rows |-> [t \in 1..Len(idx) |-> PlaceRow(files[p].rows[idx[t]], coins[t])]]]
                        /\ kept' = [kept EXCEPT ![p] = idx]
                        /\ rng' = Drawn(seeded, Len(idx))
                        /\ mt' = Shown(seeded, coins)
                        /\ ret' = [ret EXCEPT ![p] = "ok"]
                        /\ seedArg' = [seedArg EXCEPT ![p] = seed]
                        /\ calls' = Logged(p, "prepare_file", TRUE, FALSE)

PrepIdle ==
    /\ files = [p \in Paths |-> NoFile]
    /\ input = [p \in Paths |-> <<>>]
    /\ ret = [p \in Paths |-> "-"]
    /\ seedArg = [p \in Paths |-> NoSeed]
    /\ kept = [p \in Paths |-> <<>>]
    /\ rng = [seed |-> NoSeed, pos |-> 0]
    /\ mt = [s \in Seeds |-> <<>>]
    /\ calls = [p \in Paths |-> <<>>]

FrameIdle ==
    /\ url = <<>>
    /\ offset = 1
    /\ prevUrl = <<>>
    /\ prevUrlZ = <<>>
    /\ fpc = "idle"

\* the texts the raw rows are drawn from
U1 == <<"/", "1", ".", "j">>
U2 == <<"/", "0", ".", "j">>

A == <<"a">>
B == <<"b">>

RawRow(img, orig, gen) ==
    [image_url |-> img, original_description |-> orig, generated_description |-> gen]

\* rows of one image with two original captions and a generated caption
\* that is missing, "a" or "b " (stripped to "b"), the same for a second
\* image, a row whose image is blank, a row without original caption, and a
\* row that differs from another one only by trailing whitespace
RawRows ==
    {RawRow(U1, orig, gen) : orig \in {A, B}, gen \in {<<>>, A, <<"b", " ">>}}
        \cup {RawRow(U2, A, gen) : gen \in {<<>>, A, <<"b", " ">>}}
        \cup {RawRow(<<" ">>, A, A), RawRow(U1, <<>>, A), RawRow(U1, A, <<"a", " ">>)}

RawInputs == UNION {[1..n -> RawRows] : n \in 0..MaxRows}

RawFile(rows) == [exists |-> TRUE, fieldnames |-> RawFields, rows |-> rows]

\* a file without the generated_description column
ShortFile ==
    [exists |-> TRUE,
     fieldnames |-> {"image_url", "original_description"},
     rows |-> <<[image_url |-> U1, original_description |-> A]>>]

(***************************************************************************)
(* process_csv_file, fix_csv_file, randomize_csv_file                      *)
(***************************************************************************)
\* row.get(name, '')
GetOr(row, name) == IF name \in DOMAIN row THEN row[name] ELSE <<>>

\* the number of tool runs so far, on all files
RECURSIVE CallCount(_)
CallCount(ps) ==
    IF ps = {} THEN 0
    ELSE LET p == CHOOSE x \in ps : TRUE IN Len(calls[p]) + CallCount(ps \ {p})

\* "if current_url and not row.get('prev_image', '').strip()"
NeedsPrev(row) ==
    /\ Strip(GetOr(row, "current_image")) # <<>>
    /\ Strip(GetOr(row, "prev_image")) = <<>>

\* the row after the loop body of process_csv_file
FillPrev(row) ==
    IF NeedsPrev(row)
    THEN [row EXCEPT !.prev_image = get_previous_frame_url_zfill(Strip(GetOr(row, "current_image")), 1)]
    ELSE row

\* updated_count: the rows whose prev_image was set to a non-empty URL
UpdatedCount(rows) ==
    Cardinality({t \in 1..Len(rows) : NeedsPrev(rows[t]) /\ FillPrev(rows[t]).prev_image # <<>>})

\* process_csv_file(input_path, in_place=True), as main() calls it
ProcessCsvFile(p) ==
    /\ fpc = "idle"
    /\ CallCount(Paths) < MaxCalls
    /\ UNCHANGED <<input, ret, seedArg, kept, rng, mt, frameVars, anaVars>>
    /\ IF \/ ~files[p].exists
          \/ "current_image" \notin files[p].fieldnames
          \/ "prev_image" \notin files[p].fieldnames
       THEN \* file not found, or a required column is missing
            /\ calls' = Logged(p, "process_csv_file", FALSE, FALSE)
            /\ UNCHANGED files
       ELSE IF UpdatedCount(files[p].rows) = 0
       THEN \* "No rows needed updating"
            /\ calls' = Logged(p, "process_csv_file", FALSE, FALSE)
            /\ UNCHANGED files
       ELSE /\ files' = [files EXCEPT ![p].rows =
                            [t \in 1..Len(files[p].rows) |-> FillPrev(files[p].rows[t])]]
            /\ calls' = Logged(p, "process_csv_file", TRUE, FALSE)

FixedFields == {"prev_image", "current_image", "description_a", "description_b"}

\* fixed_row: the URL found in prev_image becomes current_image, the texts
\* found in current_image and description_a move one column to the right
FixedRow(row) ==
    LET current_url == Strip(GetOr(row, "prev_image"))
        desc_a == Strip(GetOr(row, "current_image"))
        desc_b == Strip(GetOr(row, "description_a"))
    IN  [prev_image |-> get_previous_frame_url_zfill(current_url, 1),
         current_image |-> current_url,
         description_a |-> desc_a,
         description_b |-> desc_b]

\* the loop of fix_csv_file: acc holds the indices of the rows with a URL
RECURSIVE FixLoop(_, _, _)
FixLoop(rows, i, acc) ==
    IF i > Len(rows) THEN acc
    ELSE IF Strip(GetOr(rows[i], "prev_image")) # <<>> THEN FixLoop(rows, i + 1, Append(acc, i))
    ELSE FixLoop(rows, i + 1, acc)

\* the source rows of the rows that are left, when the file had a source
\* row for each of its rows
KeptOf(p, idx) ==
    IF Len(kept[p]) = Len(files[p].rows) THEN [t \in 1..Len(idx) |-> kept[p][idx[t]]] ELSE kept[p]

\* fix_csv_file(input_path): the file is written whatever fixed_rows holds
FixCsvFile(p) ==
    /\ fpc = "idle"
    /\ CallCount(Paths) < MaxCalls
    /\ UNCHANGED <<input, ret, seedArg, rng, mt, frameVars, anaVars>>
    /\ IF ~files[p].exists
       THEN /\ calls' = Logged(p, "fix_csv_file", FALSE, FALSE)
            /\ UNCHANGED <<files, kept>>
       ELSE \E idx \in {FixLoop(files[p].rows, 1, <<>>)} :
                /\ files' = [files EXCEPT ![p] =
                      [exists |-> TRUE,
                       fieldnames |-> FixedFields,
                       rows |-> [t \in 1..Len(idx) |-> FixedRow(files[p].rows[idx[t]])]]]
                /\ kept' = [kept EXCEPT ![p] = KeptOf(p, idx)]
                /\ calls' = Logged(p, "fix_csv_file", TRUE, FALSE)

\* the loop body of randomize_csv_file for one row; the descriptions are
\* not stripped
SwapRow(row, should_swap) ==
    LET desc_a == GetOr(row, "description_a")
        desc_b == GetOr(row, "description_b")
    IN  [f \in DOMAIN row \cup {"model_position"} |->
            IF f = "model_position" THEN (IF should_swap THEN "A" ELSE "B")
            ELSE IF f = "description_a" THEN (IF should_swap THEN desc_b ELSE desc_a)
            ELSE IF f = "description_b" THEN (IF should_swap THEN desc_a ELSE desc_b)
            ELSE row[f]]

\* randomize_csv_file(input_path, seed): of a file without rows the
\* percentages printed after the write divide by zero
RandomizeCsvFile(p, seed) ==
    /\ fpc = "idle"
    /\ CallCount(Paths) < MaxCalls
    /\ UNCHANGED <<input, ret, seedArg, kept, frameVars, anaVars>>
    /\ IF ~files[p].exists
       THEN /\ calls' = Logged(p, "randomize_csv_file", FALSE, FALSE)
            /\ UNCHANGED <<files, rng, mt>>
       ELSE IF ~({"description_a", "description_b"} \subseteq files[p].fieldnames)
       THEN \* the seed was applied before the columns were looked at
            /\ rng' = Reseed(rng, seed)
            /\ calls' = Logged(p, "randomize_csv_file", FALSE, FALSE)
            /\ UNCHANGED <<files, mt>>
       ELSE \E seeded \in {Reseed(rng, seed)} :
            \E coins \in [1..Len(files[p].rows) -> BOOLEAN] :
                /\ CoinsAllowed(seeded, coins)
                /\ files' = [files EXCEPT ![p] =
                      [exists |-> TRUE,
                       fieldnames |-> files[p].fieldnames \cup {"model_position"},
                       rows |-> [t \in 1..Len(files[p].rows) |-> SwapRow(files[p].rows[t], coins[t])]]]
                /\ rng' = Drawn(seeded, Len(coins))
                /\ mt' = Shown(seeded, coins)
                /\ calls' = Logged(p, "randomize_csv_file", TRUE, files[p].rows = <<>>)

\* a table in the layout fix_csv_file and process_csv_file read
FourColRow(prev, cur, da, db) ==
    [prev_image |-> prev, current_image |-> cur, description_a |-> da, description_b |-> db]

\* a row without prev_image whose image has a previous frame, one whose
\* image is frame 0, and a shifted row: the URL in prev_image, the two
\* descriptions in current_image and description_a
FourColRows ==
    {FourColRow(<<>>, U1, A, B), FourColRow(<<>>, U2, A, B), FourColRow(U1, A, B, <<>>)}

\* raw rows: two complete ones, of an image with and without previous
\* frame, and one without generated caption
RewriteRawRows == {RawRow(U1, A, B), RawRow(U2, A, B), RawRow(U1, B, <<>>)}

\* the tables of no, one and two rows out of rs
ShortTables(rs) == {<<>>} \cup {<<r>> : r \in rs} \cup {<<r1, r2>> : r1 \in rs, r2 \in rs}

FourColFile(rows) == [exists |-> TRUE, fieldnames |-> FixedFields, rows |-> rows]

RewriteFiles ==
    {RawFile(rows) : rows \in ShortTables(RewriteRawRows)}
        \cup {FourColFile(rows) : rows \in ShortTables(FourColRows)}

(***************************************************************************)
(* analyze_results (analyze_comparison_results.py)                         *)
(***************************************************************************)
\* DATASETS, in the declared order
DATASETS ==
    <<[key |-> "qwen_p1", model |-> "qwen"],
      [key |-> "qwen_p2", model |-> "qwen"],
      [key |-> "gpt_p1", model |-> "gpt"],
      [key |-> "gpt_p2", model |-> "gpt"]>>

DatasetKeys == {DATASETS[i].key : i \in 1..Len(DATASETS)}

Models == {DATASETS[i].model : i \in 1..Len(DATASETS)}

PosA == <<"A">>
PosB == <<"B">>
Neither == <<"N", "e", "i", "t", "h", "e", "r">>

\* (cur, da, db) of a comparison row or of a response
RowKey(row) ==
    <<Strip(row.current_image), Strip(row.description_a), Strip(row.description_b)>>

\* a bug the first-binding claim must catch: a later entry of a key is put
\* in front of the earlier ones
AddEntryFirst(lk, key, entry) ==
    IF key \in DOMAIN lk
    THEN [lk EXCEPT ![key] = <<entry>> \o @]
    ELSE [k \in DOMAIN lk \cup {key} |-> IF k = key THEN <<entry>> ELSE lk[k]]

\* lookup.setdefault(key, []).append(entry)
AddEntry(lk, key, entry) ==
    IF key \in DOMAIN lk
    THEN [lk EXCEPT ![key] = Append(@, entry)]
    ELSE [k \in DOMAIN lk \cup {key} |-> IF k = key THEN <<entry>> ELSE lk[k]]

\* the loop over the rows of one comparison file
RECURSIVE LoadRows(_, _, _, _)
LoadRows(lk, ds_key, rows, i) ==
    IF i > Len(rows) THEN lk
    ELSE LET key == RowKey(rows[i])
             mp == Strip(rows[i].model_position)
         IN  IF key[1] = <<>> \/ key[2] = <<>> \/ key[3] = <<>>
             THEN LoadRows(lk, ds_key, rows, i + 1)
             ELSE LoadRows(AddEntry(lk, key, <<ds_key, mp>>), ds_key, rows, i + 1)

\* the loop over the datasets; a missing file is skipped
RECURSIVE LoadDatasets(_, _, _, _)
LoadDatasets(lk, datasets, fs, d) ==
    IF d > Len(datasets) THEN lk
    ELSE IF ~fs[datasets[d].key].exists THEN LoadDatasets(lk, datasets, fs, d + 1)
    ELSE LoadDatasets(LoadRows(lk, datasets[d].key, fs[datasets[d].key].rows, 1), datasets, fs, d + 1)

\* load_comparison_lookup(datasets) over the comparison files fs
load_comparison_lookup(datasets, fs) == LoadDatasets(<<>>, datasets, fs, 1)

\* next((d.model for d in DATASETS if d.key == ds_key), None)
ModelOf(ds_key) ==
    IF \E i \in 1..Len(DATASETS) : DATASETS[i].key = ds_key
    THEN DATASETS[CHOOSE i \in 1..Len(DATASETS) :
                    DATASETS[i].key = ds_key /\ \A j \in 1..(i - 1) : DATASETS[j].key # ds_key].model
    ELSE "None"

\* a bug the classification claims must catch: the response's own
\* model_position column is used instead of the one of the comparison row
OutcomeFromResponse(r, model_pos) ==
    LET choice == Strip(r.choice)
        own == Strip(r.model_position)
    IN  IF choice = Neither THEN "tie"
        ELSE IF choice \in {PosA, PosB} /\ own \in {PosA, PosB}
             THEN IF choice = own THEN "win" ELSE "lose"
             ELSE "tie"

\* a bug the tie fallback claim must catch: an unusable choice counts as a loss
OutcomeLoseFallback(r, model_pos) ==
    LET choice == Strip(r.choice)
    IN  IF choice = Neither THEN "tie"
        ELSE IF choice \in {PosA, PosB} /\ model_pos \in {PosA, PosB}
             THEN IF choice = model_pos THEN "win" ELSE "lose"
             ELSE "lose"

\* the counter the if/elif/else on choice and model_pos increments
Outcome(r, model_pos) ==
    LET choice == Strip(r.choice)
    IN  IF choice = Neither THEN "tie"
        ELSE IF choice \in {PosA, PosB} /\ model_pos \in {PosA, PosB}
             THEN IF choice = model_pos THEN "win" ELSE "lose"
             ELSE "tie"

\* a bug the counting claims must catch: rows is not incremented
TallyWithoutRows(st, model, outcome) ==
    [st EXCEPT ![model][outcome] = @ + 1]

\* stats[model]["rows"] += 1 and stats[model][outcome] += 1
Tally(st, model, outcome) ==
    [st EXCEPT ![model]["rows"] = @ + 1, ![model][outcome] = @ + 1]

\* a bug the unmatched claim must catch: an unmatched response is counted
\* for the first model
UnmatchedTallied(st) == [st EXCEPT ![DATASETS[1].model]["rows"] = @ + 1]

\* what the "if not matches" branch does to stats: nothing
UnmatchedStats(st) == st

ZeroStats == [m \in Models |-> [win |-> 0, lose |-> 0, tie |-> 0, rows |-> 0]]

\* the texts of the comparison rows and responses
CmpRow(cur, da, db, mp) ==
    [current_image |-> cur, description_a |-> da, description_b |-> db, model_position |-> mp]

\* rows of the key (U1, a, b) with the model at A, at B and unrecorded, a row
\* of the key with A and B swapped, and a row without description_a
CmpRows ==
    {CmpRow(U1, A, B, PosA), CmpRow(U1, A, B, <<"B", " ">>), CmpRow(U1, A, B, <<>>),
     CmpRow(U1, B, A, PosA), CmpRow(U1, <<>>, B, PosA)}

\* a response; its own model_position column is never read
Response(cur, da, db, choice) ==
    [current_image |-> cur, description_a |-> da, description_b |-> db,
     model_position |-> PosA, choice |-> choice]

Choices == {PosA, <<"B", " ">>, Neither, <<"C">>, <<>>}

\* responses to the key (U1, a, b) with every choice, and with two choices
\* each to the key with A and B swapped and to a key of another image
Responses ==
    {Response(U1, <<"a", " ">>, B, c) : c \in Choices}
        \cup {Response(U1, B, A, c) : c \in {PosA, Neither}}
        \cup {Response(U2, A, B, c) : c \in {PosA, <<>>}}

NoResponse == Response(<<>>, <<>>, <<>>, <<>>)

\* the comparison rows placed in the datasets: up to MaxCmpRows rows in all
Placements == UNION {[1..n -> DatasetKeys \X CmpRows] : n \in 0..MaxCmpRows}

RECURSIVE RowsFor(_, _, _)
RowsFor(placed, ds_key, i) ==
    IF i > Len(placed) THEN <<>>
    ELSE IF placed[i][1] = ds_key THEN <<placed[i][2]>> \o RowsFor(placed, ds_key, i + 1)
    ELSE RowsFor(placed, ds_key, i + 1)

\* a dataset without rows has no file
CmpFiles(placed) ==
    [d \in DatasetKeys |->
        [exists |-> RowsFor(placed, d, 1) # <<>>, rows |-> RowsFor(placed, d, 1)]]

AnaIdle ==
    /\ cmp = [d \in DatasetKeys |-> [exists |-> FALSE, rows |-> <<>>]]
    /\ respExists = FALSE
    /\ total = 0
    /\ resp = NoResponse
    /\ done = 0
    /\ lookup = <<>>
    /\ stats = ZeroStats
    /\ unmatched = <<>>
    /\ ambiguous = <<>>
    /\ apc = "idle"

AnalyzeInit ==
    /\ FrameIdle
    /\ PrepIdle
    /\ cmp \in {CmpFiles(placed) : placed \in Placements}
    /\ respExists \in BOOLEAN
    /\ total = 0
    /\ resp = NoResponse
    /\ done = 0
    /\ lookup = <<>>
    /\ stats = ZeroStats
    /\ unmatched = <<>>
    /\ ambiguous = <<>>
    /\ apc = "start"

\* analyze_results up to the loop: the lookup is loaded, the responses are
\* read (SystemExit when the file is missing) and the stats are zeroed
AnalyzeStart ==
    /\ apc = "start"
    /\ lookup' = load_comparison_lookup(DATASETS, cmp)
    /\ IF ~respExists
       THEN /\ apc' = "exit"
            /\ UNCHANGED <<total, stats>>
       ELSE /\ apc' = "loop"
            /\ total' \in 0..MaxResponses
            /\ stats' = ZeroStats
    /\ UNCHANGED <<cmp, respExists, resp, done, unmatched, ambiguous, frameVars, prepVars>>

\* one iteration of "for r in responses"
ProcessResponse(r) ==
    /\ apc = "loop"
    /\ done < total
    /\ resp' = r
    /\ done' = done + 1
    /\ UNCHANGED <<cmp, respExists, total, lookup, apc, frameVars, prepVars>>
    /\ LET key == RowKey(r)
       IN  IF key \notin DOMAIN lookup \/ lookup[key] = <<>>
           THEN /\ unmatched' = Append(unmatched, key)
                /\ stats' = UnmatchedStats(stats)
                /\ UNCHANGED ambiguous
           ELSE LET matches == lookup[key]
                    ds_key == matches[1][1]
                    model_pos == matches[1][2]
                    model == ModelOf(ds_key)
                IN  /\ ambiguous' = IF Len(matches) > 1
                                    THEN Append(ambiguous, <<key, matches>>)
                                    ELSE ambiguous
                    /\ stats' = IF model = "None" THEN stats
                                ELSE Tally(stats, model, Outcome(r, model_pos))
                    /\ UNCHANGED unmatched

\* the loop is over: the summary is printed
AnalyzeFinish ==
    /\ apc = "loop"
    /\ done = total
    /\ apc' = "done"
    /\ UNCHANGED <<cmp, respExists, total, resp, done, lookup, stats, unmatched, ambiguous,
                   frameVars, prepVars>>

AnalyzeNext ==
    \/ AnalyzeStart
    \/ \E r \in Responses : ProcessResponse(r)
    \/ AnalyzeFinish

SpecAnalyze == AnalyzeInit /\ [][AnalyzeNext]_vars

(***************************************************************************)
(* Specifications of prepare_file: one file, and two copies of one input   *)
(***************************************************************************)
\* at p1 a raw file of any bounded content, or a file that lacks a column;
\* nothing at p2
PrepareInit ==
    /\ FrameIdle
    /\ AnaIdle
    /\ \/ \E rows \in RawInputs :
             /\ files = [p \in Paths |-> IF p = "p1" THEN RawFile(rows) ELSE NoFile]
             /\ input = [p \in Paths |-> IF p = "p1" THEN rows ELSE <<>>]
       \/ /\ files = [p \in Paths |-> IF p = "p1" THEN ShortFile ELSE NoFile]
          /\ input = [p \in Paths |-> IF p = "p1" THEN ShortFile.rows ELSE <<>>]
    /\ ret = [p \in Paths |-> "-"]
    /\ seedArg = [p \in Paths |-> NoSeed]
    /\ kept = [p \in Paths |-> <<>>]
    /\ rng = [seed |-> NoSeed, pos |-> 0]
    /\ mt = [s \in Seeds |-> <<>>]
    /\ calls = [p \in Paths |-> <<>>]

PrepareNext == \E p \in Paths, seed \in Seeds \cup {NoSeed} : PrepareFile(p, seed)

SpecPrepare == PrepareInit /\ [][PrepareNext]_vars

\* the rows of the two-file runs
DetRows == {RawRow(U1, A, <<"b", " ">>), RawRow(U2, A, A), RawRow(U1, B, A), RawRow(U1, A, <<>>)}

DetInputs == UNION {[1..n -> DetRows] : n \in 0..MaxRows}

\* two files with the same raw content, as when main() is given two copies
\* of one input
DetInit ==
    /\ FrameIdle
    /\ AnaIdle
    /\ \E rows \in DetInputs :
          /\ files = [p \in Paths |-> RawFile(rows)]
          /\ input = [p \in Paths |-> rows]
    /\ ret = [p \in Paths |-> "-"]
    /\ seedArg = [p \in Paths |-> NoSeed]
    /\ kept = [p \in Paths |-> <<>>]
    /\ rng = [seed |-> NoSeed, pos |-> 0]
    /\ mt = [s \in Seeds |-> <<>>]
    /\ calls = [p \in Paths |-> <<>>]

SpecDet == DetInit /\ [][PrepareNext]_vars

(***************************************************************************)
(* Specification of the four table-rewriting tools run one after another   *)
(***************************************************************************)
\* at p1 a raw table or a four-column table, nothing at p2
RewriteInit ==
    /\ FrameIdle
    /\ AnaIdle
    /\ \E f \in RewriteFiles :
          /\ files = [p \in Paths |-> IF p = "p1" THEN f ELSE NoFile]
          /\ input = [p \in Paths |-> IF p = "p1" THEN f.rows ELSE <<>>]
    /\ ret = [p \in Paths |-> "-"]
    /\ seedArg = [p \in Paths |-> NoSeed]
    /\ kept = [p \in Paths |-> <<>>]
    /\ rng = [seed |-> NoSeed, pos |-> 0]
    /\ mt = [s \in Seeds |-> <<>>]
    /\ calls = [p \in Paths |-> <<>>]

RewriteNext ==
    \E p \in Paths :
        \/ \E seed \in Seeds \cup {NoSeed} : PrepareFile(p, seed)
        \/ ProcessCsvFile(p)
        \/ FixCsvFile(p)
        \/ \E seed \in Seeds \cup {NoSeed} : RandomizeCsvFile(p, seed)

SpecRewrite == RewriteInit /\ [][RewriteNext]_vars

(***************************************************************************)
(* Specification of the frame URL derivation: every bounded URL and offset *)
(***************************************************************************)
FrameInit ==
    /\ url \in Urls
    /\ offset \in Offsets
    /\ prevUrl = <<>>
    /\ prevUrlZ = <<>>
    /\ fpc = "call"
    /\ PrepIdle
    /\ AnaIdle

DeriveFrame ==
    /\ fpc = "call"
    /\ prevUrl' = get_previous_frame_url(url, offset)
    /\ prevUrlZ' = get_previous_frame_url_zfill(url, offset)
    /\ fpc' = "ret"
    /\ UNCHANGED <<url, offset, prepVars, anaVars>>

FrameNext == DeriveFrame

SpecFrame == FrameInit /\ [][FrameNext]_vars

(***************************************************************************)
(* Claims about get_previous_frame_url                                     *)
(***************************************************************************)
\* the last path segment of u
LastSegment(u) == SubSeq(u, LastSlash(u) + 1, Len(u))

\* the segment is <digits>.<ext> and nothing else: a non-empty run of
\* digits, one dot, a non-empty run of word characters
IsFrameName(seg) ==
    \E d \in 1..Len(seg) :
        /\ d + 2 <= Len(seg)
        /\ \A i \in 1..d : IsDigit(seg[i])
        /\ seg[d + 1] = "."
        /\ \A i \in (d + 2)..Len(seg) : IsWord(seg[i])

\* digit count w of a frame name
StemWidth(seg) == CHOOSE d \in 1..Len(seg) : seg[d + 1] = "."

\* r is u with only the digits of the last segment replaced, by the number n
\* written with exactly as many digits as before
IsFrameReplaced(u, r, n) ==
    LET s == LastSlash(u)
        w == StemWidth(LastSegment(u))
    IN  /\ Len(r) = Len(u)
        /\ \A i \in 1..Len(u) : (i <= s \/ i > s + w) => r[i] = u[i]
        /\ \A i \in (s + 1)..(s + w) : IsDigit(r[i])
        /\ ParseInt(SubSeq(r, s + 1, s + w)) = n

FrameResultIs(r) ==
    LET seg == LastSegment(url)
        f == ParseInt(SubSeq(seg, 1, StemWidth(seg)))
    IN  IF offset <= f THEN IsFrameReplaced(url, r, f - offset) ELSE r = <<>>

\* C1: for a URL whose last segment is <digits>.<ext> with value f and width
\* w, and an offset k >= 1: when k <= f the result is the same URL with the
\* digits replaced by f-k zero-padded to exactly w digits (extension and all
\* other segments unchanged); when k > f the result is the empty string.
C1_PreviousFrame ==
    (fpc = "ret" /\ IsFrameName(LastSegment(url)))
        => (FrameResultIs(prevUrl) /\ FrameResultIs(prevUrlZ))

\* /10.a with offset 1 gives /09.a: the borrow keeps the width
C1_Witness ==
    /\ fpc = "ret"
    /\ url = <<"/", "1", "0", ".", "a">>
    /\ offset = 1
    /\ prevUrl = <<"/", "0", "9", ".", "a">>
    /\ prevUrlZ = prevUrl

\* C2: whenever the last path segment is not digits-dot-word-extension the
\* result is the empty string.
C2_MalformedGivesEmpty ==
    (fpc = "ret" /\ ~IsFrameName(LastSegment(url)))
        => (prevUrl = <<>> /\ prevUrlZ = <<>>)

(***************************************************************************)
(* Claims about prepare_file                                               *)
(***************************************************************************)
\* the input row of p that the t-th written row came from
SourceOf(p, t) == input[p][kept[p][t]]

\* the input row i of p is the source of a written row
Survives(p, i) == \E t \in 1..Len(kept[p]) : kept[p][t] = i

Image(row) == Strip(row.image_url)
OriginalCaption(row) == Strip(row.original_description)
GeneratedCaption(row) == Strip(row.generated_description)

\* image, original caption and generated caption are all present
HasAllThree(row) ==
    Image(row) # <<>> /\ OriginalCaption(row) # <<>> /\ GeneratedCaption(row) # <<>>

\* no earlier input row of p has the image and the original caption of row i
FirstForImage(p, i) ==
    \A k \in 1..(i - 1) :
        ~(Image(input[p][k]) = Image(input[p][i])
            /\ OriginalCaption(input[p][k]) = OriginalCaption(input[p][i]))

\* C3 as stated: in every written row exactly one of description_a and
\* description_b equals the source record's generated caption, and
\* model_position names that one.
C3_ExactlyOneIsGenerated ==
    \A p \in Paths : ret[p] = "ok" =>
        \A t \in 1..Len(files[p].rows) :
            LET out == files[p].rows[t]
                isA == out.description_a = GeneratedCaption(SourceOf(p, t))
                isB == out.description_b = GeneratedCaption(SourceOf(p, t))
            IN  /\ isA # isB
                /\ out.model_position \in {"A", "B"}
                /\ out.model_position = "A" => isA
                /\ out.model_position = "B" => isB

\* C3 amended: in every written row model_position is "A" or "B", the
\* description at that position is the source record's generated caption and
\* the other description is its original caption; so exactly one of the two
\* equals the generated caption whenever the two captions differ.
C3_PositionHoldsGenerated ==
    \A p \in Paths : ret[p] = "ok" =>
        \A t \in 1..Len(files[p].rows) :
            LET out == files[p].rows[t]
                gen == GeneratedCaption(SourceOf(p, t))
                orig == OriginalCaption(SourceOf(p, t))
            IN  /\ out.model_position \in {"A", "B"}
                /\ out.model_position = "A" => (out.description_a = gen /\ out.description_b = orig)
                /\ out.model_position = "B" => (out.description_b = gen /\ out.description_a = orig)
                /\ orig # gen => ((out.description_a = gen) # (out.description_b = gen))

\* a file written with one row placed at A and one at B, and a row whose two
\* captions are the same text
C3_Witness ==
    /\ ret["p1"] = "ok"
    /\ \E t \in 1..Len(files["p1"].rows) :
          files["p1"].rows[t].model_position = "A" /\ files["p1"].rows[t].description_a = <<"b">>
              /\ files["p1"].rows[t].description_b = <<"a">>
    /\ \E t \in 1..Len(files["p1"].rows) : files["p1"].rows[t].model_position = "B"
    /\ \E t \in 1..Len(files["p1"].rows) :
          files["p1"].rows[t].description_a = files["p1"].rows[t].description_b

\* C4 as stated: of two input rows identical in image, original caption and
\* generated caption exactly one is written, the first.
C4_FirstDuplicateSurvives ==
    \A p \in Paths : ret[p] = "ok" =>
        \A i, j \in 1..Len(input[p]) :
            (i < j /\ input[p][i] = input[p][j]) => (Survives(p, i) /\ ~Survives(p, j))

\* C4 amended: of two input rows identical (after stripping) in image,
\* original caption and generated caption the later one is never written,
\* and the first is written exactly when it has all three fields and no
\* earlier row has its image and original caption.
C4_LaterDuplicateDropped ==
    \A p \in Paths : ret[p] = "ok" =>
        \A i, j \in 1..Len(input[p]) :
            (/\ i < j
             /\ Image(input[p][i]) = Image(input[p][j])
             /\ OriginalCaption(input[p][i]) = OriginalCaption(input[p][j])
             /\ GeneratedCaption(input[p][i]) = GeneratedCaption(input[p][j]))
            => /\ ~Survives(p, j)
               /\ Survives(p, i) <=> (HasAllThree(input[p][i]) /\ FirstForImage(p, i))

\* two identical complete rows after a different row: the first of the two
\* is written and the second is not
C4_Witness ==
    /\ ret["p1"] = "ok"
    /\ Len(input["p1"]) = 3
    /\ input["p1"][2] = input["p1"][3]
    /\ input["p1"][1] # input["p1"][2]
    /\ kept["p1"] = <<1, 2>>

\* C5 as stated: of two input rows with the same image and original caption
\* and different generated captions only the first is written.
C5_OnlyFirstSurvives ==
    \A p \in Paths : ret[p] = "ok" =>
        \A i, j \in 1..Len(input[p]) :
            (/\ i < j
             /\ Image(input[p][i]) = Image(input[p][j])
             /\ OriginalCaption(input[p][i]) = OriginalCaption(input[p][j])
             /\ GeneratedCaption(input[p][i]) # GeneratedCaption(input[p][j]))
            => (Survives(p, i) /\ ~Survives(p, j))

\* C5 amended: of two such rows the later one is never written, and the
\* first is written exactly when it has all three fields and no earlier row
\* has its image and original caption (a first row without generated caption
\* takes the later row with it).
C5_LaterCaptionDropped ==
    \A p \in Paths : ret[p] = "ok" =>
        \A i, j \in 1..Len(input[p]) :
            (/\ i < j
             /\ Image(input[p][i]) = Image(input[p][j])
             /\ OriginalCaption(input[p][i]) = OriginalCaption(input[p][j])
             /\ GeneratedCaption(input[p][i]) # GeneratedCaption(input[p][j]))
            => /\ ~Survives(p, j)
               /\ Survives(p, i) <=> (HasAllThree(input[p][i]) /\ FirstForImage(p, i))

\* same image and original caption, generated captions "a" then "b": only
\* the first is written, next to a row of another image
C5_Witness ==
    /\ ret["p1"] = "ok"
    /\ Len(input["p1"]) = 3
    /\ Image(input["p1"][1]) = Image(input["p1"][2])
    /\ OriginalCaption(input["p1"][1]) = OriginalCaption(input["p1"][2])
    /\ GeneratedCaption(input["p1"][1]) = <<"a">>
    /\ GeneratedCaption(input["p1"][2]) = <<"b">>
    /\ kept["p1"] = <<1, 3>>

\* C6: two runs with the same seed on the same input rows write the same
\* rows in the same order with the same placement; with or without a seed
\* every written row has model_position "A" or "B".
C6_SeededRunsAgree ==
    /\ \A p, q \in Paths :
          (/\ ret[p] = "ok" /\ ret[q] = "ok"
           /\ seedArg[p] # NoSeed /\ seedArg[p] = seedArg[q]
           /\ input[p] = input[q])
          => files[p].rows = files[q].rows
    /\ \A p \in Paths : ret[p] = "ok" =>
          \A t \in 1..Len(files[p].rows) : files[p].rows[t].model_position \in {"A", "B"}

\* both copies prepared with seed s1, three rows written, not all placed alike
C6_Witness ==
    /\ ret["p1"] = "ok" /\ ret["p2"] = "ok"
    /\ seedArg["p1"] = "s1" /\ seedArg["p2"] = "s1"
    /\ Len(files["p1"].rows) = 3
    /\ files["p1"].rows[1].model_position # files["p1"].rows[2].model_position
    /\ files["p2"].rows = files["p1"].rows

(***************************************************************************)
(* Claims about analyze_results                                            *)
(***************************************************************************)
Counters == {"win", "lose", "tie", "rows"}

RECURSIVE SumRows(_, _)
SumRows(st, ms) ==
    IF ms = {} THEN 0
    ELSE LET m == CHOOSE x \in ms : TRUE IN st[m].rows + SumRows(st, ms \ {m})

\* some comparison file holds a row with this key and all three key fields
IsBound(key) ==
    \E d \in DatasetKeys : \E i \in 1..Len(cmp[d].rows) :
        /\ cmp[d].exists
        /\ RowKey(cmp[d].rows[i]) = key
        /\ key[1] # <<>> /\ key[2] # <<>> /\ key[3] # <<>>

\* the step from one loop iteration to the next: resp' is the response handled
IsResponseStep == apc = "loop" /\ done' = done + 1

\* the model the response r is counted for, and the model_position recorded
\* in the comparison row it is matched to
ResolvedModel(r) == ModelOf(lookup[RowKey(r)][1][1])
RecordedPosition(r) == lookup[RowKey(r)][1][2]

\* exactly the counter c of the model m is one higher; c is win, lose or tie
OnlyCounted(m, c) ==
    /\ stats'[m][c] = stats[m][c] + 1
    /\ \A m2 \in Models, c2 \in {"win", "lose", "tie"} :
          <<m2, c2>> # <<m, c>> => stats'[m2][c2] = stats[m2][c2]

\* C7: for every model, after every prefix of the responses,
\* rows = win + lose + tie, and no counter decreases from one response to
\* the next.
C7_RowsIsSum ==
    /\ [](\A m \in Models : stats[m].rows = stats[m].win + stats[m].lose + stats[m].tie)
    /\ [][\A m \in Models, c \in Counters : stats'[m][c] >= stats[m][c]]_vars

\* two responses counted for one model, a win and a tie
C7_Witness ==
    /\ apc = "done"
    /\ \E m \in Models : stats[m].rows = 2 /\ stats[m].win = 1 /\ stats[m].tie = 1

\* C8: a matched response whose choice is empty or anything but A, B or
\* Neither, or whose comparison row records a model_position that is not A
\* or B, adds one tie for the resolved model and no win or loss.
C8_TieFallback ==
    [][(/\ IsResponseStep
        /\ IsBound(RowKey(resp'))
        /\ \/ Strip(resp'.choice) \notin {PosA, PosB, Neither}
           \/ RecordedPosition(resp') \notin {PosA, PosB})
       => OnlyCounted(ResolvedModel(resp'), "tie")]_vars

\* the only response, matched and with choice "C", was counted as a tie
C8_Witness ==
    /\ apc = "done"
    /\ done = 1
    /\ Strip(resp.choice) = <<"C">>
    /\ IsBound(RowKey(resp))
    /\ RecordedPosition(resp) = PosA
    /\ stats[ResolvedModel(resp)] = [win |-> 0, lose |-> 0, tie |-> 1, rows |-> 1]

\* C9: for a matched response with choice A or B and a recorded
\* model_position A or B in the matched comparison row, the resolved model
\* gets a win exactly when the choice is that position and a loss otherwise;
\* the choice Neither gives a tie.
C9_Classification ==
    [][(IsResponseStep /\ IsBound(RowKey(resp')))
       => /\ (/\ Strip(resp'.choice) \in {PosA, PosB}
              /\ RecordedPosition(resp') \in {PosA, PosB})
             => IF Strip(resp'.choice) = RecordedPosition(resp')
                THEN OnlyCounted(ResolvedModel(resp'), "win")
                ELSE OnlyCounted(ResolvedModel(resp'), "lose")
          /\ Strip(resp'.choice) = Neither => OnlyCounted(ResolvedModel(resp'), "tie")]_vars

\* the choice B on a row whose recorded position is B counted as a win,
\* although the response's own model_position column says A
C9_Witness ==
    /\ apc = "done"
    /\ done = 1
    /\ Strip(resp.choice) = PosB
    /\ resp.model_position = PosA
    /\ IsBound(RowKey(resp))
    /\ RecordedPosition(resp) = PosB
    /\ stats[ResolvedModel(resp)].win = 1

\* C10: a response whose key is in no comparison file is appended to
\* unmatched and changes no counter; any other response raises the rows of
\* exactly one model by one and leaves unmatched alone; at the end the
\* number of unmatched keys plus the rows of all models is the number of
\* responses.
C10_MatchedOrUnmatched ==
    /\ [][IsResponseStep =>
            IF ~IsBound(RowKey(resp'))
            THEN unmatched' = Append(unmatched, RowKey(resp')) /\ stats' = stats
            ELSE /\ unmatched' = unmatched
                 /\ \E m \in Models :
                       /\ stats'[m].rows = stats[m].rows + 1
                       /\ \A m2 \in Models \ {m} : stats'[m2] = stats[m2]]_vars
    /\ [](apc = "done" => Len(unmatched) + SumRows(stats, Models) = total)

\* two responses, one unmatched and one counted
C10_Witness ==
    /\ apc = "done"
    /\ total = 2
    /\ Len(unmatched) = 1
    /\ SumRows(stats, Models) = 1

\* the comparison file of dataset d exists and holds a row with this key and
\* all three key fields
BoundIn(d, key) ==
    /\ cmp[d].exists
    /\ key[1] # <<>> /\ key[2] # <<>> /\ key[3] # <<>>
    /\ \E i \in 1..Len(cmp[d].rows) : RowKey(cmp[d].rows[i]) = key

\* the datasets whose comparison file holds the key
BindingDatasets(key) == {d \in DatasetKeys : BoundIn(d, key)}

\* the dataset that comes earliest in DATASETS among those holding the key
EarliestDataset(key) ==
    DATASETS[CHOOSE i \in 1..Len(DATASETS) :
                /\ BoundIn(DATASETS[i].key, key)
                /\ \A j \in 1..(i - 1) : ~BoundIn(DATASETS[j].key, key)]

\* the model_position of the first row of dataset d that holds the key
PositionIn(d, key) ==
    Strip(cmp[d].rows[CHOOSE i \in 1..Len(cmp[d].rows) :
                        /\ RowKey(cmp[d].rows[i]) = key
                        /\ \A j \in 1..(i - 1) : RowKey(cmp[d].rows[j]) # key].model_position)

\* C11: a response whose key is held by the comparison files of several
\* datasets is counted once, for the model of the dataset that comes earliest
\* in DATASETS among them, and no other model's counters change; with a
\* choice A or B it is a win or a loss by the model_position of that
\* dataset's row.
C11_FirstDeclaredWins ==
    [][IsResponseStep =>
          \A key \in {RowKey(resp')} :
              Cardinality(BindingDatasets(key)) >= 2 =>
                  \A first \in {EarliestDataset(key)} :
                  \A mp \in {PositionIn(first.key, key)} :
                  \A choice \in {Strip(resp'.choice)} :
                      /\ stats'[first.model].rows = stats[first.model].rows + 1
                      /\ \A m \in Models \ {first.model} : stats'[m] = stats[m]
                      /\ (choice \in {PosA, PosB} /\ mp \in {PosA, PosB})
                            => IF choice = mp
                               THEN OnlyCounted(first.model, "win")
                               ELSE OnlyCounted(first.model, "lose")]_vars

\* the key is held by qwen_p1 with the model at B and by gpt_p1 with the
\* model at A: the only response, with choice B, is a win of qwen and gpt
\* has no row
C11_Witness ==
    /\ apc = "done"
    /\ done = 1
    /\ cmp["qwen_p1"].rows = <<CmpRow(U1, A, B, <<"B", " ">>)>>
    /\ cmp["gpt_p1"].rows = <<CmpRow(U1, A, B, PosA)>>
    /\ RowKey(resp) = <<U1, A, B>>
    /\ Strip(resp.choice) = PosB
    /\ stats["qwen"] = [win |-> 1, lose |-> 0, tie |-> 0, rows |-> 1]
    /\ stats["gpt"] = [win |-> 0, lose |-> 0, tie |-> 0, rows |-> 0]

\* C13: every entry of the ambiguous list is a key held by the comparison
\* files of at least two different datasets; a key that occurs several times
\* in the rows of one dataset only is never recorded.
C13_AmbiguousSpansDatasets ==
    \A e \in 1..Len(ambiguous) : Cardinality(BindingDatasets(ambiguous[e][1])) >= 2

(***************************************************************************)
(* Claims about the tools that rewrite a table in place                    *)
(***************************************************************************)
\* the step is a run of the tool on the file at p: its entry is the last
\* one of the log afterwards
IsRunOf(tool, p) ==
    /\ Len(calls'[p]) = Len(calls[p]) + 1
    /\ calls'[p][Len(calls'[p])].tool = tool

\* the file at p exists and none of its rows gets through the filtering of
\* the tool: prepare_file writes the first complete row of each image and
\* original caption, process_csv_file fills the rows with an image, without
\* prev_image and with a previous frame, fix_csv_file keeps the rows with a
\* URL in prev_image
NoRowSurvives(tool, p) ==
    /\ files[p].exists
    /\ IF tool = "prepare_file"
       THEN RawFields \subseteq files[p].fieldnames /\ PreparedIdx(files[p].rows) = <<>>
       ELSE IF tool = "process_csv_file"
       THEN /\ {"current_image", "prev_image"} \subseteq files[p].fieldnames
            /\ \A t \in 1..Len(files[p].rows) :
                  LET row == files[p].rows[t]
                  IN  \/ Strip(row.current_image) = <<>>
                      \/ Strip(row.prev_image) # <<>>
                      \/ get_previous_frame_url_zfill(Strip(row.current_image), 1) = <<>>
       ELSE \A t \in 1..Len(files[p].rows) :
                \/ "prev_image" \notin DOMAIN files[p].rows[t]
                \/ Strip(files[p].rows[t].prev_image) = <<>>

\* C12: a run of prepare_file, process_csv_file or fix_csv_file on a file
\* none of whose rows survives the tool's filtering writes nothing, and the
\* file is the same afterwards.
C12_NoSurvivorNoWrite ==
    [][\A p \in Paths : \A tool \in {"prepare_file", "process_csv_file", "fix_csv_file"} :
          (IsRunOf(tool, p) /\ NoRowSurvives(tool, p))
              => (~calls'[p][Len(calls'[p])].wrote /\ files'[p] = files[p])]_vars

\* the file at p was written by prepare_file and every later run on it was
\* one of randomize_csv_file
PreparedThenRandomized(p) ==
    /\ calls[p] # <<>>
    /\ calls[p][1].tool = "prepare_file"
    /\ calls[p][1].wrote
    /\ \A i \in 2..Len(calls[p]) : calls[p][i].tool = "randomize_csv_file"

\* C14: in a file written by prepare_file and then passed through
\* randomize_csv_file any number of times, the model_position of every row
\* is A or B and the description at that position is the generated caption
\* of the row's source record.
C14_PositionSurvivesRandomize ==
    \A p \in Paths : PreparedThenRandomized(p) =>
        \A t \in 1..Len(files[p].rows) :
            LET out == files[p].rows[t]
                gen == GeneratedCaption(SourceOf(p, t))
            IN  /\ out.model_position \in {"A", "B"}
                /\ out.model_position = "A" => out.description_a = gen
                /\ out.model_position = "B" => out.description_b = gen

====
